---- MODULE Spec2Model ----
(***************************************************************************)
(* Model of the playback store of basedbeats-v2                            *)
(* (src/src/stores/useMusicStore.ts) together with the part of the audio   *)
(* engine (howler's Howl) that the store drives and that calls it back.    *)
(*                                                                         *)
(* Every store command is one atomic action (JavaScript runs a handler to  *)
(* completion).  Engine events are asynchronous: a Howl emits its events   *)
(* through a timer, so they are kept in the FIFO `pending` until the       *)
(* matching callback of the store runs.  Load completion is driven by the  *)
(* network and may happen at any time for any handle that is loading.      *)
(***************************************************************************)
EXTENDS Integers, Sequences, FiniteSets, TLC

\* ------------------------------------------------------------------ bounds
NumTracks == 3          \* track ids are 1..NumTracks
MaxHowls == 2           \* Howls alive at the same time
MaxPending == 2         \* engine events emitted and not yet delivered

TrackDuration == 1      \* duration hint in a track's metadata
HowlDuration == 2       \* duration the engine reports once the audio is loaded

MaxSends == 2           \* send() calls per transaction hook
MaxRenders == 1         \* re-renders by the parent between two send() calls
MaxFetches == 2         \* answers of the status query between two send() calls
MaxDetails == 2         \* values the page's tracksDetails takes in turn

\* --------------------------------------------------------------- constants
VolumeUnit == 10        \* volume 1.0; volumes are counted in tenths
InitVolume == 8         \* volume 0.8

Tracks == 1..NumTracks
VolumeInputs == {-3, 5, VolumeUnit + 2}
SeekInputs == {-1, 1, HowlDuration + 1}

Null == 0                                     \* currentHowl: null
NullTrack == [id |-> 0, duration |-> 0]       \* currentTrack: null

\* audioUrl is optional (the page stores "" when the metadata names none):
\* track 1 has no audio locator, the other tracks have one.
HasAudioUrl(t) == t # 1

Max(a, b) == IF a >= b THEN a ELSE b
Min(a, b) == IF a <= b THEN a ELSE b

Range(s) == {s[i] : i \in 1..Len(s)}

\* Queues handed to addToQueue (track ids are unique on chain): one that
\* starts with the placeholder track, a shorter one in another order, and a
\* single track.
QueueInputs == {<<1, 2, 3>>, <<3, 2>>, <<2>>}

VARIABLES
    currentTrack,   \* NullTrack or [id, duration]
    isPlaying,
    currentTime,
    volume,
    queue,          \* sequence of track ids
    currentIndex,   \* 0-based index as in the source, -1 = no selection
    currentHowl,    \* Null or an index into howls
    isShuffled,
    repeatMode,
    howls,          \* the Howls alive in the engine, by handle id
    pending,        \* engine events emitted and not yet delivered (FIFO)
    last,           \* the last handler that ran and whether it threw
    tx,             \* the transaction hooks of src/hooks/useTransactions.ts
    loader          \* the page's track loader (App, loadTracks effect)

vars == <<currentTrack, isPlaying, currentTime, volume, queue, currentIndex,
          currentHowl, isShuffled, repeatMode, howls, pending, last, tx,
          loader>>

store == <<currentTrack, isPlaying, currentTime, volume, queue, currentIndex,
           currentHowl, isShuffled, repeatMode>>

\* threw: the handler ended with an uncaught TypeError.  The handlers of the
\* store and the engine touch neither the transaction hooks nor the page's
\* track loader.
Mark(op) == last' = [op |-> op, threw |-> FALSE] /\ UNCHANGED <<tx, loader>>
MarkThrow(op) == last' = [op |-> op, threw |-> TRUE] /\ UNCHANGED <<tx, loader>>

\* queue[i] with the source's 0-based index; 0 stands for `undefined`.
At(q, i) == IF i >= 0 /\ i < Len(q) THEN q[i + 1] ELSE 0

\* Array.prototype.findIndex((t) => t.id === id): first match, else -1.
FindIndexOneBased(q, id) ==
    IF \E i \in 1..Len(q) : q[i] = id
    THEN CHOOSE i \in 1..Len(q) : q[i] = id /\ \A j \in 1..(i - 1) : q[j] # id
    ELSE -1

FindIndex(q, id) ==
    IF \E i \in 1..Len(q) : q[i] = id
    THEN (CHOOSE i \in 1..Len(q) : q[i] = id /\ \A j \in 1..(i - 1) : q[j] # id) - 1
    ELSE -1

\* ------------------------------------------------------------ audio engine
HowlIds == 1..MaxHowls

\* ------------------------------------------------------- transaction hooks
\* useSingleTransaction and useBatchTransaction, one instance of each (as in
\* useTransaction).
Kinds == {"single", "batch"}

\* send:        state of the wagmi mutation (useSendTransaction / useSendCalls)
\* id:          its data, the hash / callsId; 0 = undefined
\* status:      data of the receipt / calls-status query; "none" = undefined
\* statusError: that query's error (confirmError / statusError)
\* poll:        a fetch of that query is outstanding or scheduled
\* dirty:       a render was committed whose effects have not run yet
\* sends:       calls of send()
\* renders, fetches: re-renders by the parent and answered status fetches
\*              since the last send()
\* succ, err, settled: invocations of options.onSuccess / onError / onSettled
\*              since the last send()
NewTx ==
    [send |-> "idle", id |-> 0, status |-> "none", statusError |-> FALSE,
     poll |-> FALSE, hasNotified |-> FALSE, dirty |-> FALSE,
     sends |-> 0, renders |-> 0, fetches |-> 0,
     succ |-> 0, err |-> 0, settled |-> 0]

\* new Howl({src: [track.audioUrl], volume, html5: true, ...}): loading starts
\* at once.  unloads counts the calls of howl.unload().  superseded is history
\* the code does not keep: playTrack was called for another track while this
\* Howl was still loading.
NewHowl(t, v) ==
    [track |-> t, state |-> "loading", playing |-> FALSE, pos |-> 0,
     volume |-> v, unloads |-> 0, superseded |-> FALSE]

NoHowl ==
    [track |-> 0, state |-> "free", playing |-> FALSE, pos |-> 0,
     volume |-> 0, unloads |-> 0, superseded |-> FALSE]

\* playTrack(t) does nothing to the Howls that are still loading (it only
\* stops currentHowl); the history field records that they were overtaken.
Supersede(hs, t) ==
    [h \in HowlIds |->
        IF hs[h].state = "loading" /\ hs[h].track # t
        THEN [hs[h] EXCEPT !.superseded = TRUE]
        ELSE hs[h]]

HasFree(hs) == \E h \in HowlIds : hs[h].state = "free"
FreeId(hs) ==
    CHOOSE h \in HowlIds :
        hs[h].state = "free" /\ \A g \in HowlIds : hs[g].state = "free" => h <= g

Create(hs, t, v) == [hs EXCEPT ![FreeId(hs)] = NewHowl(t, v)]

\* A Howl is reachable only through the store's currentHowl and through its
\* own callbacks (`const howl` is local to playTrack).  Once it is neither
\* bound nor loading nor playing and has no event to deliver, it can neither
\* sound nor call back, and it is dropped from the state.
Inert(hs, h, cur, pend) ==
    /\ hs[h].state \in {"loaded", "failed"}
    /\ ~hs[h].playing
    /\ h # cur
    /\ \A i \in 1..Len(pend) : pend[i].h # h

Collect(hs, cur, pend) ==
    [h \in HowlIds |-> IF Inert(hs, h, cur, pend) THEN NoHowl ELSE hs[h]]

Settle(hs) == howls' = Collect(hs, currentHowl', pending')

Event(h, ev) == [h |-> h, ev |-> ev]

\* howl.stop(): position back to 0, not playing; always emits `stop`.
HowlStop(hs, h) == [hs EXCEPT ![h].playing = FALSE, ![h].pos = 0]

\* howl.pause(): emits `pause` only when a sound was playing.
HowlPause(hs, h) == [hs EXCEPT ![h].playing = FALSE]
PauseEvents(hs, h) == IF hs[h].playing THEN <<Event(h, "pause")>> ELSE <<>>

\* howl.play(): emits `play`.
HowlPlay(hs, h) == [hs EXCEPT ![h].playing = TRUE]

\* howl.seek(t): emits `seek`.
HowlSeek(hs, h, t) == [hs EXCEPT ![h].pos = t]

HowlVolume(hs, h, v) == [hs EXCEPT ![h].volume = v]

Audible(h) == howls[h].playing
Loading(h) == howls[h].state = "loading"

\* ------------------------------------------------- the page's track loader
\* details:         the value of tracksDetails, by the order of arrival
\*                  (0: undefined, nothing fetched from the chain yet)
\* effectDue:       a render with new tracksDetails was committed and the
\*                  loadTracks effect has not run for it yet
\* isLoadingTracks: the state of that name
\* running:         the tracksDetails value whose metadata is being fetched
\*                  (0: no load is running)
NewLoader ==
    [details |-> 0, effectDue |-> FALSE, isLoadingTracks |-> FALSE,
     running |-> 0]

\* The queue that loadTracks builds from the n-th value of tracksDetails.
DetailsQueues == <<<<1, 2, 3>>, <<3, 2>>, <<2>>>>
QueueOf(n) == DetailsQueues[((n - 1) % Len(DetailsQueues)) + 1]

Init ==
    /\ currentTrack = NullTrack
    /\ isPlaying = FALSE
    /\ currentTime = 0
    /\ volume = InitVolume
    /\ queue = <<>>
    /\ currentIndex = 0
    /\ currentHowl = Null
    /\ isShuffled = FALSE
    /\ repeatMode = "none"
    /\ howls = [h \in HowlIds |-> NoHowl]
    /\ pending = <<>>
    /\ last = [op |-> "init", threw |-> FALSE]
    /\ tx = [k \in Kinds |-> NewTx]
    /\ loader = NewLoader

\* --------------------------------------------------------------- playTrack
\* Room for what playTrack(t) creates and emits (bounds of the exploration).
CanPlayTrack(t) ==
    /\ HasAudioUrl(t) => HasFree(howls)
    /\ currentHowl # Null => Len(pending) < MaxPending

\* if (currentHowl) currentHowl.stop()
StopCurrent(hs) == IF currentHowl # Null THEN HowlStop(hs, currentHowl) ELSE hs
StopEvents == IF currentHowl # Null THEN <<Event(currentHowl, "stop")>> ELSE <<>>

\* playTrack(t) run with the events `pend` still to deliver
PlayTrackEffect(t, pend) ==
    /\ pending' = pend \o StopEvents
    /\ UNCHANGED <<volume, queue, isShuffled, repeatMode>>
    /\ IF HasAudioUrl(t)
       THEN /\ UNCHANGED <<currentTrack, isPlaying, currentTime,
                           currentIndex, currentHowl>>
            /\ Settle(Create(Supersede(StopCurrent(howls), t), t, volume))
       ELSE /\ currentTrack' = [id |-> t, duration |-> TrackDuration]
            /\ isPlaying' = TRUE
            /\ currentTime' = 0
            /\ currentIndex' = FindIndex(queue, t)
            /\ currentHowl' = Null
            /\ Settle(Supersede(StopCurrent(howls), t))

PlayTrack(t) ==
    /\ CanPlayTrack(t)
    /\ PlayTrackEffect(t, pending)
    /\ Mark("playTrack")

\* onload of the Howl created by playTrack
OnLoad(h) ==
    /\ Loading(h)
    /\ Len(pending) < MaxPending
    /\ currentTrack' = [id |-> howls[h].track, duration |-> HowlDuration]
    /\ isPlaying' = TRUE
    /\ currentTime' = 0
    /\ currentIndex' = FindIndex(queue, howls[h].track)
    /\ currentHowl' = h
    /\ pending' = Append(pending, Event(h, "play"))
    /\ UNCHANGED <<volume, queue, isShuffled, repeatMode>>
    /\ Settle(HowlPlay([howls EXCEPT ![h].state = "loaded",
                                      ![h].superseded = FALSE], h))
    /\ Mark("onload")

\* The engine fails to load; the Howl options register no onloaderror.
LoadError(h) ==
    /\ Loading(h)
    /\ UNCHANGED <<store, pending>>
    /\ Settle([howls EXCEPT ![h].state = "failed", ![h].superseded = FALSE])
    /\ Mark("loaderror")

\* playTrack(undefined): the current Howl is stopped (lines 60-62), then
\* reading track.audioUrl throws.
PlayUndefinedEffect ==
    /\ pending' = pending \o StopEvents
    /\ UNCHANGED store
    /\ Settle(StopCurrent(howls))

\* ------------------------------------------------- pause / resume / toggle
Pause ==
    /\ currentHowl # Null => Len(pending) < MaxPending
    /\ isPlaying' = FALSE
    /\ UNCHANGED <<currentTrack, currentTime, volume, queue, currentIndex,
                   currentHowl, isShuffled, repeatMode>>
    /\ IF currentHowl # Null
       THEN /\ pending' = pending \o PauseEvents(howls, currentHowl)
            /\ Settle(HowlPause(howls, currentHowl))
       ELSE UNCHANGED <<howls, pending>>
    /\ Mark("pause")

Resume ==
    /\ currentHowl # Null => Len(pending) < MaxPending
    /\ isPlaying' = TRUE
    /\ UNCHANGED <<currentTrack, currentTime, volume, queue, currentIndex,
                   currentHowl, isShuffled, repeatMode>>
    /\ IF currentHowl # Null
       THEN /\ pending' = Append(pending, Event(currentHowl, "play"))
            /\ Settle(HowlPlay(howls, currentHowl))
       ELSE UNCHANGED <<howls, pending>>
    /\ Mark("resume")

TogglePlayPause ==
    /\ currentHowl # Null => Len(pending) < MaxPending
    /\ isPlaying' = ~isPlaying
    /\ UNCHANGED <<currentTrack, currentTime, volume, queue, currentIndex,
                   currentHowl, isShuffled, repeatMode>>
    /\ IF currentHowl # Null
       THEN IF isPlaying
            THEN /\ pending' = pending \o PauseEvents(howls, currentHowl)
                 /\ Settle(HowlPause(howls, currentHowl))
            ELSE /\ pending' = Append(pending, Event(currentHowl, "play"))
                 /\ Settle(HowlPlay(howls, currentHowl))
       ELSE UNCHANGED <<howls, pending>>
    /\ Mark("togglePlayPause")

\* ------------------------------------------------------ seekTo / setVolume
\* currentTrack?.duration || 0
DurationOr0(track) == IF track = NullTrack THEN 0 ELSE track.duration

\* Math.max(0, Math.min(time, currentTrack?.duration || 0))
SeekTimeNoFloor(time) == Min(time, DurationOr0(currentTrack))
SeekTime(time) == Max(0, Min(time, DurationOr0(currentTrack)))

SeekTo(time) ==
    /\ currentHowl # Null => Len(pending) < MaxPending
    /\ currentTime' = SeekTime(time)
    /\ UNCHANGED <<currentTrack, isPlaying, volume, queue, currentIndex,
                   currentHowl, isShuffled, repeatMode>>
    /\ IF currentHowl # Null
       THEN /\ pending' = Append(pending, Event(currentHowl, "seek"))
            /\ Settle(HowlSeek(howls, currentHowl, SeekTime(time)))
       ELSE UNCHANGED <<howls, pending>>
    /\ Mark("seekTo")

\* Math.max(0, Math.min(1, volume))
NewVolumeNoCeiling(v) == Max(0, v)
NewVolume(v) == Max(0, Min(VolumeUnit, v))

SetVolume(v) ==
    /\ volume' = NewVolume(v)
    /\ UNCHANGED <<currentTrack, isPlaying, currentTime, queue, currentIndex,
                   currentHowl, isShuffled, repeatMode, pending>>
    /\ IF currentHowl # Null
       THEN Settle(HowlVolume(howls, currentHowl, NewVolume(v)))
       ELSE UNCHANGED howls
    /\ Mark("setVolume")

\* if (currentHowl && isPlaying) set({ currentTime: currentHowl.seek() || 0 })
UpdateCurrentTime ==
    /\ currentTime' = IF currentHowl # Null /\ isPlaying
                      THEN howls[currentHowl].pos ELSE currentTime
    /\ UNCHANGED <<currentTrack, isPlaying, volume, queue, currentIndex,
                   currentHowl, isShuffled, repeatMode, howls, pending>>
    /\ Mark("updateCurrentTime")

\* ------------------------------------------------ nextTrack / previousTrack
\* The track nextTrack() hands to playTrack; 0 when playTrack is not called.
NextTargetRestarts ==
    IF repeatMode = "one" THEN At(queue, currentIndex)
    ELSE IF currentIndex < Len(queue) - 1 THEN At(queue, currentIndex)
    ELSE IF repeatMode = "all" /\ Len(queue) > 0 THEN At(queue, 0)
    ELSE 0

NextTarget ==
    IF repeatMode = "one" THEN At(queue, currentIndex)
    ELSE IF currentIndex < Len(queue) - 1 THEN At(queue, currentIndex + 1)
    ELSE IF repeatMode = "all" /\ Len(queue) > 0 THEN At(queue, 0)
    ELSE 0

\* nextTrack() run with the events `pend` still to deliver
NextTrackEffect(pend) ==
    IF NextTarget # 0
    THEN PlayTrackEffect(NextTarget, pend)
    ELSE pending' = pend /\ UNCHANGED store /\ Settle(howls)

NextTrack ==
    /\ NextTarget # 0 => CanPlayTrack(NextTarget)
    /\ NextTrackEffect(pending)
    /\ Mark("nextTrack")

\* Whether previousTrack() calls playTrack, and with which queue entry
\* (0 = undefined).
PrevCalls ==
    IF repeatMode = "one" THEN At(queue, currentIndex) # 0
    ELSE currentIndex > 0 \/ (repeatMode = "all" /\ Len(queue) > 0)

PrevTarget ==
    IF repeatMode = "one" THEN At(queue, currentIndex)
    ELSE IF currentIndex > 0 THEN At(queue, currentIndex - 1)
    ELSE At(queue, Len(queue) - 1)

PreviousTrack ==
    IF ~PrevCalls
    THEN UNCHANGED <<store, howls, pending>> /\ Mark("previousTrack")
    ELSE IF PrevTarget # 0
    THEN /\ CanPlayTrack(PrevTarget)
         /\ PlayTrackEffect(PrevTarget, pending)
         /\ Mark("previousTrack")
    ELSE /\ currentHowl # Null => Len(pending) < MaxPending
         /\ PlayUndefinedEffect
         /\ MarkThrow("previousTrack")

\* ------------------------------------------------------------------- queue
AddToQueue(tracks) ==
    /\ queue' = tracks
    /\ UNCHANGED <<currentTrack, isPlaying, currentTime, volume, currentIndex,
                   currentHowl, isShuffled, repeatMode, howls, pending>>
    /\ Mark("addToQueue")

ClearQueueKeepsHowl ==
    /\ currentHowl # Null => Len(pending) < MaxPending
    /\ queue' = <<>>
    /\ currentIndex' = -1
    /\ currentTrack' = NullTrack
    /\ isPlaying' = FALSE
    /\ currentHowl' = currentHowl
    /\ pending' = pending \o StopEvents
    /\ UNCHANGED <<currentTime, volume, isShuffled, repeatMode>>
    /\ Settle(StopCurrent(howls))
    /\ Mark("clearQueue")

ClearQueue ==
    /\ currentHowl # Null => Len(pending) < MaxPending
    /\ queue' = <<>>
    /\ currentIndex' = -1
    /\ currentTrack' = NullTrack
    /\ isPlaying' = FALSE
    /\ currentHowl' = Null
    /\ pending' = pending \o StopEvents
    /\ UNCHANGED <<currentTime, volume, isShuffled, repeatMode>>
    /\ Settle(StopCurrent(howls))
    /\ Mark("clearQueue")

\* [a[i], a[j]] = [a[j], a[i]] with the source's 0-based i, j
SwapOverwrite(a, i, j) == [a EXCEPT ![i + 1] = a[j + 1]]
Swap(a, i, j) == [a EXCEPT ![i + 1] = a[j + 1], ![j + 1] = a[i + 1]]

\* The arrays the Fisher-Yates loop can end with when it is about to run
\* iteration i (i counts down to 1; j = floor(random * (i + 1)) is in 0..i).
RECURSIVE Shuffles(_, _)
Shuffles(a, i) ==
    IF i > 0
    THEN UNION {Shuffles(Swap(a, i, j), i - 1) : j \in 0..i}
    ELSE {a}

ToggleShuffleAlways ==
    /\ isShuffled' = ~isShuffled
    /\ IF Len(queue) > 1
       THEN /\ queue' \in Shuffles(queue, Len(queue) - 1)
            /\ currentIndex' = 0
       ELSE UNCHANGED <<queue, currentIndex>>
    /\ UNCHANGED <<currentTrack, isPlaying, currentTime, volume, currentHowl,
                   repeatMode, howls, pending>>
    /\ Mark("toggleShuffle")

ToggleShuffle ==
    /\ isShuffled' = ~isShuffled
    /\ IF ~isShuffled /\ Len(queue) > 1
       THEN /\ queue' \in Shuffles(queue, Len(queue) - 1)
            /\ currentIndex' = 0
       ELSE UNCHANGED <<queue, currentIndex>>
    /\ UNCHANGED <<currentTrack, isPlaying, currentTime, volume, currentHowl,
                   repeatMode, howls, pending>>
    /\ Mark("toggleShuffle")

Modes == <<"none", "one", "all">>

\* modes.indexOf(mode), 0-based
IndexOfMode(mode) == (CHOOSE i \in 1..Len(Modes) : Modes[i] = mode) - 1

\* modes[(currentIndex + 1) % modes.length]
NextModeNoWrap(mode) == Modes[Min(IndexOfMode(mode) + 1, Len(Modes) - 1) + 1]
NextMode(mode) == Modes[((IndexOfMode(mode) + 1) % Len(Modes)) + 1]

ToggleRepeat ==
    /\ repeatMode' = NextMode(repeatMode)
    /\ UNCHANGED <<currentTrack, isPlaying, currentTime, volume, queue,
                   currentIndex, currentHowl, isShuffled, howls, pending>>
    /\ Mark("toggleRepeat")

\* ----------------------------------------------------------- engine events
Head1(ev) == pending # <<>> /\ Head(pending).ev = ev

OnPlay ==
    /\ Head1("play")
    /\ pending' = Tail(pending)
    /\ isPlaying' = TRUE
    /\ UNCHANGED <<currentTrack, currentTime, volume, queue, currentIndex,
                   currentHowl, isShuffled, repeatMode>>
    /\ Settle(howls)
    /\ Mark("onplay")

OnPause ==
    /\ Head1("pause")
    /\ pending' = Tail(pending)
    /\ isPlaying' = FALSE
    /\ UNCHANGED <<currentTrack, currentTime, volume, queue, currentIndex,
                   currentHowl, isShuffled, repeatMode>>
    /\ Settle(howls)
    /\ Mark("onpause")

OnStop ==
    /\ Head1("stop")
    /\ pending' = Tail(pending)
    /\ isPlaying' = FALSE
    /\ currentTime' = 0
    /\ UNCHANGED <<currentTrack, volume, queue, currentIndex,
                   currentHowl, isShuffled, repeatMode>>
    /\ Settle(howls)
    /\ Mark("onstop")

\* set({ currentTime: howl.seek() })
OnSeek ==
    /\ Head1("seek")
    /\ pending' = Tail(pending)
    /\ currentTime' = howls[Head(pending).h].pos
    /\ UNCHANGED <<currentTrack, isPlaying, volume, queue, currentIndex,
                   currentHowl, isShuffled, repeatMode>>
    /\ Settle(howls)
    /\ Mark("onseek")

OnEnd ==
    /\ Head1("end")
    /\ LET h == Head(pending).h
           rest == Tail(pending)
       IN IF repeatMode = "one"
          THEN /\ Len(rest) + 2 <= MaxPending
               /\ pending' = rest \o <<Event(h, "seek"), Event(h, "play")>>
               /\ UNCHANGED store
               /\ Settle(HowlPlay(HowlSeek(howls, h, 0), h))
          ELSE /\ NextTarget # 0 /\ HasAudioUrl(NextTarget) => HasFree(howls)
               /\ NextTrackEffect(rest)
    /\ Mark("onend")

\* Playback of a playing Howl advances ...
Tick(h) ==
    /\ howls[h].playing
    /\ howls[h].pos < HowlDuration
    /\ howls' = [howls EXCEPT ![h].pos = @ + 1]
    /\ UNCHANGED <<store, pending>>
    /\ Mark("tick")

\* ... and reaches the end of the audio: the engine emits `end`.
Ended(h) ==
    /\ howls[h].playing
    /\ Len(pending) < MaxPending
    /\ pending' = Append(pending, Event(h, "end"))
    /\ UNCHANGED store
    /\ Settle([howls EXCEPT ![h].playing = FALSE, ![h].pos = 0])
    /\ Mark("ended")

\* --------------------------------------------------------------- TrackList
\* TrackList reads `isLoading` from the store's state, which has no such
\* field: the value is undefined in every state.
IsLoading == FALSE

\* handleTrackClick(track) for a row of the rendered queue
HandleTrackClick(t) ==
    /\ t \in Range(queue)
    /\ IF IsLoading
       THEN UNCHANGED vars
       ELSE IF currentTrack.id = t
       THEN IF isPlaying THEN Pause ELSE Resume
       ELSE PlayTrack(t)

\* ------------------------------------------------- the page: loadTracks
\* useGetTracksBatch delivers new track details: the page renders with them,
\* which schedules the effect (tracksDetails is one of its dependencies).
DetailsUpdate ==
    /\ ~loader.effectDue
    /\ loader.details < MaxDetails
    /\ loader' = [loader EXCEPT !.details = @ + 1, !.effectDue = TRUE]
    /\ UNCHANGED <<store, howls, pending, last, tx>>

\* The effect runs loadTracks(): it returns at once without details or with
\* isLoadingTracks set, else it sets isLoadingTracks and starts the fetches.
LoadTracks ==
    /\ loader.effectDue
    /\ loader' =
          IF loader.details = 0 \/ loader.isLoadingTracks
          THEN [loader EXCEPT !.effectDue = FALSE]
          ELSE [loader EXCEPT !.effectDue = FALSE, !.isLoadingTracks = TRUE,
                              !.running = loader.details]
    /\ UNCHANGED <<store, howls, pending, last, tx>>

\* Promise.all resolves: addToQueue(loadedTracks), then (finally)
\* setIsLoadingTracks(false).  That render changes no dependency of the
\* effect, so the effect does not run again.
TracksLoaded ==
    /\ loader.running # 0
    /\ queue' = QueueOf(loader.running)
    /\ loader' = [loader EXCEPT !.running = 0, !.isLoadingTracks = FALSE]
    /\ last' = [op |-> "addToQueue", threw |-> FALSE]
    /\ UNCHANGED <<currentTrack, isPlaying, currentTime, volume, currentIndex,
                   currentHowl, isShuffled, repeatMode, howls, pending, tx>>

\* ------------------------------------------- useTransactions.ts: the hooks
\* isConfirmed: the receipt was fetched / callsStatus?.status === "success"
IsConfirmed(t) == t.status = "success"

\* sendError || confirmError, sendError || statusError
HasError(t) == t.send = "error" \/ t.statusError

TxStep(k, new) ==
    /\ tx' = [tx EXCEPT ![k] = new]
    /\ UNCHANGED <<store, howls, pending, last, loader>>

\* React runs the effects of a committed render before it handles the next
\* event or renders again.
Flushed(k) == ~tx[k].dirty

\* send(): setHasNotified(false), then the mutation starts; a starting
\* mutation drops its previous data and error, which disables the status query.
SendNoRearm(k) ==
    /\ Flushed(k)
    /\ tx[k].sends < MaxSends
    /\ TxStep(k, [tx[k] EXCEPT !.send = "pending", !.id = 0, !.status = "none",
                               !.statusError = FALSE, !.poll = FALSE,
                               !.dirty = TRUE,
                               !.sends = @ + 1, !.renders = 0, !.fetches = 0,
                               !.succ = 0, !.err = 0, !.settled = 0])

Send(k) ==
    /\ Flushed(k)
    /\ tx[k].sends < MaxSends
    /\ TxStep(k, [tx[k] EXCEPT !.send = "pending", !.id = 0, !.status = "none",
                               !.statusError = FALSE, !.poll = FALSE,
                               !.hasNotified = FALSE, !.dirty = TRUE,
                               !.sends = @ + 1, !.renders = 0, !.fetches = 0,
                               !.succ = 0, !.err = 0, !.settled = 0])

\* The wallet answers with the hash / callsId: the status query is enabled
\* and fetches.
SendResolved(k) ==
    /\ Flushed(k)
    /\ tx[k].send = "pending"
    /\ TxStep(k, [tx[k] EXCEPT !.send = "success", !.id = tx[k].sends,
                               !.poll = TRUE, !.dirty = TRUE])

\* The wallet rejects: sendError is set.
SendRejected(k) ==
    /\ Flushed(k)
    /\ tx[k].send = "pending"
    /\ TxStep(k, [tx[k] EXCEPT !.send = "error", !.dirty = TRUE])

\* Answers a status fetch can get.  A receipt is fetched once; the calls
\* status is "pending" until it is final, and a final status does not change.
StatusAnswers(k) ==
    IF k = "single" THEN {"success", "error"}
    ELSE IF tx[k].status = "failure" THEN {"failure", "error"}
    ELSE {"pending", "success", "failure", "error"}

\* refetchInterval: data?.state.data?.status === "success" ? false : 1000
\* (useWaitForTransactionReceipt is given no refetchInterval).
Refetch(k, status) == k = "batch" /\ status # "success"

\* A status fetch ends with answer r; an unchanged result renders nothing.
StatusResult(k, r) ==
    /\ Flushed(k)
    /\ tx[k].poll
    /\ tx[k].fetches < MaxFetches
    /\ r \in StatusAnswers(k)
    /\ LET status == IF r = "error" THEN tx[k].status ELSE r
           failed == r = "error"
       IN TxStep(k, [tx[k] EXCEPT
                !.status = status,
                !.statusError = failed,
                !.poll = Refetch(k, status),
                !.fetches = @ + 1,
                !.dirty = @ \/ status # tx[k].status
                            \/ failed # tx[k].statusError])

\* The component renders again for a reason of its own; the options object
\* literal it passes is a new object in every render.
Render(k) ==
    /\ Flushed(k)
    /\ tx[k].renders < MaxRenders
    /\ TxStep(k, [tx[k] EXCEPT !.renders = @ + 1, !.dirty = TRUE])

\* The two effects of a committed render (options is one of their
\* dependencies, so they run after every render).  options.onSettled is
\* called by neither.
Effects(k) ==
    /\ tx[k].dirty
    /\ LET notify == IsConfirmed(tx[k]) /\ ~tx[k].hasNotified /\ tx[k].id # 0
       IN TxStep(k, [tx[k] EXCEPT
                !.succ = IF notify THEN @ + 1 ELSE @,
                !.hasNotified = @ \/ notify,
                !.err = IF HasError(tx[k]) THEN @ + 1 ELSE @,
                !.dirty = notify])

\* resetTransaction / resetCalls: reset(); setHasNotified(false)
Reset(k) ==
    /\ Flushed(k)
    /\ TxStep(k, [tx[k] EXCEPT !.send = "idle", !.id = 0, !.status = "none",
                               !.statusError = FALSE, !.poll = FALSE,
                               !.hasNotified = FALSE,
                               !.dirty = @ \/ tx[k].send # "idle"
                                           \/ tx[k].hasNotified])

\* ----------------------------------------------------------- specifications
\* Playback, queue replacement, navigation and engine events; the queue order,
\* the volume and the playback position stay as constructed.
Next ==
    \/ \E t \in Tracks : PlayTrack(t)
    \/ \E h \in HowlIds : OnLoad(h)
    \/ Pause
    \/ Resume
    \/ TogglePlayPause
    \/ NextTrack
    \/ PreviousTrack
    \/ \E tracks \in QueueInputs : AddToQueue(tracks)
    \/ ClearQueue
    \/ ToggleRepeat
    \/ OnPlay
    \/ OnPause
    \/ OnStop
    \/ OnSeek
    \/ OnEnd
    \/ \E h \in HowlIds : Ended(h)

Spec == Init /\ [][Next]_vars

\* Shuffling: navigation over a queue whose order changes under the current
\* track, with tracks loading and playing to their end.
NextShuffle ==
    \/ \E t \in Tracks : PlayTrack(t)
    \/ \E h \in HowlIds : OnLoad(h)
    \/ NextTrack
    \/ PreviousTrack
    \/ \E tracks \in QueueInputs : AddToQueue(tracks)
    \/ ClearQueue
    \/ ToggleShuffle
    \/ ToggleRepeat
    \/ OnPlay
    \/ OnStop
    \/ OnSeek
    \/ OnEnd
    \/ \E h \in HowlIds : Ended(h)

SpecShuffle == Init /\ [][NextShuffle]_vars

\* Volume changes while tracks are selected, loaded, paused and resumed.
NextVolume ==
    \/ \E t \in Tracks : PlayTrack(t)
    \/ \E h \in HowlIds : OnLoad(h)
    \/ \E h \in HowlIds : LoadError(h)
    \/ Pause
    \/ Resume
    \/ TogglePlayPause
    \/ \E v \in VolumeInputs : SetVolume(v)
    \/ ClearQueue
    \/ OnPlay
    \/ OnPause
    \/ OnStop

SpecVolume == Init /\ [][NextVolume]_vars

\* Seeking and the position display while tracks play to their end.
NextSeek ==
    \/ \E t \in Tracks : PlayTrack(t)
    \/ \E h \in HowlIds : OnLoad(h)
    \/ Pause
    \/ Resume
    \/ \E time \in SeekInputs : SeekTo(time)
    \/ UpdateCurrentTime
    \/ ClearQueue
    \/ OnPlay
    \/ OnPause
    \/ OnStop
    \/ OnSeek
    \/ OnEnd
    \/ \E h \in HowlIds : Tick(h)
    \/ \E h \in HowlIds : Ended(h)

SpecSeek == Init /\ [][NextSeek]_vars

\* Unattended playback: the page fills the queue and the volume is set, then
\* the first track of the queue is started and only the engine acts.
AutoplayIdle == last.op \in {"init", "addToQueue", "setVolume"}

AutoplayEngine ==
    \/ \E h \in HowlIds : OnLoad(h)
    \/ OnPlay
    \/ OnStop
    \/ OnEnd
    \/ \E h \in HowlIds : Ended(h)

NextAutoplay ==
    \/ AutoplayIdle /\ \E tracks \in QueueInputs : AddToQueue(tracks)
    \/ AutoplayIdle /\ \E v \in VolumeInputs : SetVolume(v)
    \/ AutoplayIdle /\ queue # <<>> /\ PlayTrack(queue[1])
    \/ \E h \in HowlIds : Tick(h)
    \/ AutoplayEngine

\* Every load completes, every delivered event is handled and every playing
\* Howl reaches the end of its audio.
SpecAutoplay == Init /\ [][NextAutoplay]_vars /\ WF_vars(AutoplayEngine)

\* The track list: the page fills the queue, the user clicks rows, the engine
\* loads (or fails to load), plays and ends.
NextTrackList ==
    \/ \E tracks \in QueueInputs : AddToQueue(tracks)
    \/ \E t \in Tracks : HandleTrackClick(t)
    \/ \E h \in HowlIds : OnLoad(h)
    \/ \E h \in HowlIds : LoadError(h)
    \/ OnPlay
    \/ OnPause
    \/ OnStop
    \/ OnEnd
    \/ \E h \in HowlIds : Ended(h)

SpecTrackList == Init /\ [][NextTrackList]_vars

\* The page: track details arrive from the chain, the loader fills the queue,
\* the user clicks rows of the track list.
NextPage ==
    \/ DetailsUpdate
    \/ LoadTracks
    \/ TracksLoaded
    \/ \E t \in Tracks : HandleTrackClick(t)
    \/ \E h \in HowlIds : OnLoad(h)
    \/ OnPlay
    \/ OnPause
    \/ OnStop

SpecPage == Init /\ [][NextPage]_vars

\* The transaction hooks; React runs the effects of every committed render.
TxEffects == \E k \in Kinds : Effects(k)

\* A component calls one of the two hooks: the other one stays as constructed.
OnlyHook(k) == \A j \in Kinds \ {k} : tx[j] = NewTx

NextTx ==
    \/ \E k \in Kinds : OnlyHook(k) /\ Send(k)
    \/ \E k \in Kinds : SendResolved(k)
    \/ \E k \in Kinds : SendRejected(k)
    \/ \E k \in Kinds : \E r \in {"pending", "success", "failure", "error"} :
            StatusResult(k, r)
    \/ \E k \in Kinds : OnlyHook(k) /\ Render(k)
    \/ \E k \in Kinds : OnlyHook(k) /\ Reset(k)
    \/ TxEffects

SpecTx == Init /\ [][NextTx]_vars /\ WF_vars(TxEffects)

TypeOK ==
    /\ isPlaying \in BOOLEAN
    /\ currentIndex \in -1..NumTracks
    /\ currentHowl \in {Null} \cup HowlIds
    /\ currentHowl # Null => howls[currentHowl].state = "loaded"
    /\ Len(pending) <= MaxPending
    /\ loader.details \in 0..MaxDetails
    /\ loader.running \in 0..loader.details
    /\ loader.isLoadingTracks <=> loader.running # 0

\* ------------------------------------------------------------------ claims
Clamp(x, lo, hi) == IF x < lo THEN lo ELSE IF x > hi THEN hi ELSE x

AudibleHowls == {h \in HowlIds : Audible(h)}

\* This step made playTrack create a Howl for track t.
CreatesHowlFor(t) ==
    \E h \in HowlIds :
        /\ howls[h].state = "free"
        /\ howls'[h].state = "loading"
        /\ howls'[h].track = t

\* This step selected track t: a Howl was created for its audio, or (no
\* audio locator) it became the current track at once.
Selects(t) ==
    IF HasAudioUrl(t)
    THEN CreatesHowlFor(t)
    ELSE currentTrack'.id = t /\ currentTime' = 0 /\ isPlaying'

\* C1: in every reachable state at most one audio handle is audible, also
\* when a second playTrack is issued before the first track has loaded.
AtMostOneAudible == Cardinality(AudibleHowls) <= 1

\* C2: in every reachable state, the initial one included, currentIndex is a
\* valid position of the queue or the sentinel -1.
IndexValidOrUnset ==
    currentIndex = -1 \/ (0 <= currentIndex /\ currentIndex < Len(queue))

\* C3: setVolume(v) leaves the stored volume equal to clamp(v, 0, 1), and the
\* stored volume lies in [0, 1] in every reachable state.
VolumeClamped ==
    /\ [](0 <= volume /\ volume <= VolumeUnit)
    /\ [][\A v \in VolumeInputs :
            SetVolume(v) => volume' = Clamp(v, 0, VolumeUnit)]_vars

VolumeClampedWitness ==
    /\ last.op = "setVolume"
    /\ volume = VolumeUnit
    /\ currentHowl # Null
    /\ howls[currentHowl].volume = VolumeUnit

\* C4: seekTo(t) leaves currentTime equal to clamp(t, 0, D), D the duration of
\* the current track (0 without one); the clamped position goes to the engine
\* only if a handle is bound, and currentTime is set also when none is bound.
SeekClamped ==
    [][\A t \in SeekInputs :
        SeekTo(t) =>
            LET D == IF currentTrack = NullTrack THEN 0 ELSE currentTrack.duration
                c == Clamp(t, 0, D)
            IN /\ currentTime' = c
               /\ currentHowl # Null =>
                    /\ howls'[currentHowl].pos = c
                    /\ pending' = Append(pending, Event(currentHowl, "seek"))
               /\ currentHowl = Null =>
                    /\ pending' = pending
                    /\ \A h \in HowlIds : howls'[h].pos = howls[h].pos]_vars

SeekClampedWitness ==
    /\ last.op = "seekTo"
    /\ currentHowl = Null
    /\ currentTrack # NullTrack
    /\ currentTime = TrackDuration

\* C5: toggleRepeat cycles none -> one -> all -> none, three toggles return
\* the mode to its original value, and toggleRepeat changes nothing else.
RepeatSuccessor(mode) ==
    CASE mode = "none" -> "one"
      [] mode = "one" -> "all"
      [] mode = "all" -> "none"

RepeatCycles ==
    [][last'.op = "toggleRepeat" =>
        /\ repeatMode' = RepeatSuccessor(repeatMode)
        /\ NextMode(NextMode(NextMode(repeatMode))) = repeatMode
        /\ UNCHANGED <<currentTrack, isPlaying, currentTime, volume, queue,
                       currentIndex, currentHowl, isShuffled, howls, pending>>]_vars

RepeatCyclesWitness ==
    /\ last.op = "toggleRepeat"
    /\ repeatMode = "none"

\* C6: after the queue is replaced with [A, B, C] the current index is unset
\* and isPlaying is false; a following playTrack(B) whose load completes
\* makes B the current track with currentIndex 1.
ReplaceQueueResets ==
    /\ (last.op = "addToQueue" /\ queue = <<1, 2, 3>>) =>
            (currentIndex = -1 /\ ~isPlaying)
    /\ (last.op = "onload" /\ queue = <<1, 2, 3>> /\ currentTrack.id = 2) =>
            currentIndex = 1

\* C7: at the last queue position nextTrack() selects index 0 when repeat is
\* all, and with repeat none leaves playback stopped and the index in place.
AtLastIndex == Len(queue) > 0 /\ currentIndex = Len(queue) - 1

NextAtEnd ==
    [][(last'.op = "nextTrack" /\ AtLastIndex) =>
        /\ repeatMode = "all" => Selects(queue[1])
        /\ repeatMode = "none" =>
            /\ ~isPlaying'
            /\ \A h \in HowlIds : ~howls'[h].playing
            /\ currentIndex' = currentIndex]_vars

\* C8: with repeat one and a current track (taken here from the queue),
\* nextTrack() and previousTrack() restart the current track: that track is
\* selected again and currentIndex is unchanged.
RepeatOneRestartsCurrent ==
    [][(/\ last'.op \in {"nextTrack", "previousTrack"}
        /\ repeatMode = "one"
        /\ currentTrack # NullTrack
        /\ currentTrack.id \in Range(queue)) =>
            /\ Selects(currentTrack.id)
            /\ currentIndex' = currentIndex]_vars

\* C9: toggleShuffle() with shuffle off on a queue of more than one track
\* yields a permutation of the queue (same length, same ids, none lost or
\* duplicated), sets isShuffled and resets currentIndex to 0.
Occurrences(q, t) == Cardinality({i \in 1..Len(q) : q[i] = t})

IsPermutation(p, q) ==
    /\ Len(p) = Len(q)
    /\ \A t \in Tracks : Occurrences(p, t) = Occurrences(q, t)

ShufflePermutes ==
    [][(last'.op = "toggleShuffle" /\ ~isShuffled /\ Len(queue) > 1) =>
        /\ IsPermutation(queue', queue)
        /\ isShuffled'
        /\ currentIndex' = 0]_vars

ShufflePermutesWitness ==
    /\ last.op = "toggleShuffle"
    /\ isShuffled
    /\ queue = <<2, 3, 1>>
    /\ currentIndex = 0

\* C10: clearQueue() leaves the queue empty, the current track unset and
\* isPlaying false, stops the current handle, and unload is invoked exactly
\* once on every handle the controller had prepared.
ClearQueueReleases ==
    [][last'.op = "clearQueue" =>
        /\ queue' = <<>>
        /\ currentTrack' = NullTrack
        /\ ~isPlaying'
        /\ currentHowl' = Null
        /\ currentHowl # Null => ~howls'[currentHowl].playing
        /\ \A h \in HowlIds :
              howls[h].state # "free" => howls'[h].unloads = 1]_vars

\* C11: with no handle bound, pause(), resume() and togglePlayPause() raise no
\* error and change nothing, isPlaying included; with a handle bound,
\* togglePlayPause() acts as pause() when playing and as resume() when paused.
PlayPauseNoOpUnbound ==
    [][last'.op \in {"pause", "resume", "togglePlayPause"} =>
        /\ ~last'.threw
        /\ currentHowl = Null => UNCHANGED <<store, howls, pending>>
        /\ (currentHowl # Null /\ last'.op = "togglePlayPause") =>
              /\ isPlaying' = ~isPlaying
              /\ howls'[currentHowl].playing = ~isPlaying]_vars

\* C12: when the engine reports that the load of the selected track failed,
\* the controller is Idle afterwards (no current track, isPlaying false, no
\* handle bound, none audible) and starts no other load.
LoadFailureToIdle ==
    [][last'.op = "loaderror" =>
        /\ currentTrack' = NullTrack
        /\ ~isPlaying'
        /\ currentHowl' = Null
        /\ \A h \in HowlIds : ~howls'[h].playing
        /\ \A h \in HowlIds : howls'[h].state = "loading" => Loading(h)]_vars

\* C13: playTrack(B) issued while track A is still loading supersedes A: the
\* later load-complete notification of A's handle neither makes A the current
\* track nor starts A playing, whichever of the two loads completes first.
SupersededLoadIgnored ==
    [][\A h \in HowlIds :
        (last'.op = "onload" /\ Loading(h) /\ howls[h].superseded
            /\ howls'[h].state # "loading") =>
                /\ currentTrack' = currentTrack
                /\ currentHowl' # h
                /\ ~howls'[h].playing]_vars

\* C14: no command throws, whatever commands and engine notifications came
\* before: nextTrack() and previousTrack() hand playTrack only tracks of the
\* current queue, also after the queue was replaced by a shorter one.
NoCommandThrows == ~last.threw

\* C15: with shuffle off and repeat none, started at the first track of the
\* queue and left alone, the tracks become current in queue order, each once,
\* down to the last one, and when the last track has ended nothing further is
\* selected.
AllHaveAudio == \A i \in 1..Len(queue) : HasAudioUrl(queue[i])

AutoplayDone ==
    /\ currentIndex = Len(queue) - 1
    /\ currentTrack.id = queue[Len(queue)]
    /\ pending = <<>>
    /\ \A h \in HowlIds : ~Loading(h) /\ ~howls[h].playing

AutoplayInOrder ==
    /\ [][last'.op = "onload" =>
            LET k == IF currentTrack = NullTrack THEN 0 ELSE currentIndex + 1
            IN /\ k < Len(queue)
               /\ currentIndex' = k
               /\ currentTrack'.id = queue[k + 1]]_vars
    /\ [][(last'.op = "onend" /\ AtLastIndex) =>
            /\ currentTrack' = currentTrack
            /\ currentIndex' = currentIndex
            /\ \A h \in HowlIds : howls'[h].state = "loading" => Loading(h)]_vars
    /\ (~AutoplayIdle /\ AllHaveAudio) ~> AutoplayDone
    /\ [](AutoplayDone => [](~AutoplayIdle => AutoplayDone))

AutoplayInOrderWitness ==
    /\ last.op = "onend"
    /\ queue = <<3, 2>>
    /\ AutoplayDone

\* C16: when a sent transaction settles, that is once onSuccess or onError
\* was invoked for it, the hook invokes the caller's onSettled.
SettledInvoked ==
    \A k \in Kinds :
        (tx[k].succ > 0 \/ tx[k].err > 0) ~> (tx[k].settled > 0)

\* C17: on a playback-ended notification with repeat one the handle that ended
\* is the bound handle, it is sought to 0 and played again, the store stays as
\* it is (Playing) and no handle is created; with any other repeat mode the
\* controller advances as nextTrack() does.
NoHowlCreated == \A g \in HowlIds : howls'[g].state = "loading" => Loading(g)

AdvanceTarget ==
    IF currentIndex < Len(queue) - 1 THEN queue[currentIndex + 2]
    ELSE IF repeatMode = "all" /\ Len(queue) > 0 THEN queue[1]
    ELSE 0

EndedRepeatsOrAdvances ==
    [][last'.op = "onend" =>
        LET h == Head(pending).h
        IN IF repeatMode = "one"
           THEN /\ h = currentHowl
                /\ howls'[h].playing
                /\ howls'[h].pos = 0
                /\ howls'[h].track = howls[h].track
                /\ pending' = Tail(pending) \o <<Event(h, "seek"), Event(h, "play")>>
                /\ UNCHANGED store
                /\ NoHowlCreated
           ELSE IF AdvanceTarget # 0
                THEN Selects(AdvanceTarget)
                ELSE UNCHANGED store /\ NoHowlCreated]_vars

\* C18: previousTrack() with repeat other than one selects the track at
\* index - 1 when the current index is above 0; otherwise, with repeat all and
\* a non-empty queue, the last track; otherwise it changes nothing.  This
\* holds for every index the store can hold, the unset index included.
PreviousSelects ==
    [][(last'.op = "previousTrack" /\ repeatMode # "one") =>
        IF currentIndex > 0
        THEN /\ currentIndex - 1 < Len(queue)
             /\ Selects(queue[currentIndex])
        ELSE IF repeatMode = "all" /\ Len(queue) > 0
        THEN Selects(queue[Len(queue)])
        ELSE UNCHANGED <<store, howls, pending>>]_vars

\* C19: the load-complete notification of the selected track is one step that
\* binds that track's handle, makes the track current with the duration the
\* engine reports, sets currentTime to 0, currentIndex to the track's position
\* in the queue and isPlaying to true, and issues play on the handle.
QueuePosition(t) ==
    IF t \in Range(queue)
    THEN CHOOSE i \in 0..(Len(queue) - 1) : queue[i + 1] = t
    ELSE -1

LoadCompleteBinds ==
    [][\A h \in HowlIds :
        (/\ last'.op = "onload"
         /\ Loading(h)
         /\ ~howls[h].superseded
         /\ howls'[h].state = "loaded") =>
            /\ currentHowl' = h
            /\ currentTrack' = [id |-> howls[h].track, duration |-> HowlDuration]
            /\ currentTime' = 0
            /\ currentIndex' = QueuePosition(howls[h].track)
            /\ isPlaying'
            /\ howls'[h].playing
            /\ pending' = Append(pending, Event(h, "play"))
            /\ UNCHANGED <<volume, queue, isShuffled, repeatMode>>]_vars

LoadCompleteBindsWitness ==
    /\ last.op = "onload"
    /\ queue = <<1, 2, 3>>
    /\ currentTrack = [id |-> 2, duration |-> HowlDuration]
    /\ currentIndex = 1
    /\ currentTime = 0
    /\ isPlaying
    /\ currentHowl # Null
    /\ howls[currentHowl].track = 2
    /\ howls[currentHowl].playing

\* C20: while a track load is outstanding, a click that selects another track
\* is ignored, creating no handle and changing no state, so that at most one
\* load is in flight at any time.
LoadingHowls == {h \in HowlIds : Loading(h)}

SelectionIgnoredWhileLoading ==
    /\ [][\A t \in Tracks :
            (/\ HandleTrackClick(t)
             /\ t # currentTrack.id
             /\ \E h \in LoadingHowls : howls[h].track # t) =>
                UNCHANGED <<store, howls, pending>>]_vars
    /\ [](Cardinality(LoadingHowls) <= 1)

\* C21: audio is never prepared for a track that already has a ready handle:
\* selecting such a track creates no handle, it binds the ready one and the
\* controller is Playing at once.
ReadyHowls(t) ==
    {h \in HowlIds : howls[h].state = "loaded" /\ howls[h].track = t}

PollingStopsWhenFinal ==
    tx["batch"].status \in {"success", "failure"} => ~tx["batch"].poll

\* C24: for every send() that gets confirmed onSuccess is invoked exactly
\* once, however often the component renders again with a new options object
\* while the confirmation persists; a later send() re-arms the notification,
\* and so does reset().
SuccessNotifiedOnce ==
    \A k \in Kinds :
        /\ tx[k].succ <= 1
        /\ (IsConfirmed(tx[k]) /\ Flushed(k)) => tx[k].succ = 1
        /\ ~IsConfirmed(tx[k]) => tx[k].succ = 0 \/ tx[k].send = "idle"

SuccessNotifiedOnceWitness ==
    \E k \in Kinds :
        /\ tx[k].sends = MaxSends
        /\ tx[k].renders = MaxRenders
        /\ IsConfirmed(tx[k])
        /\ Flushed(k)
        /\ tx[k].succ = 1

\* C25: once all pending notifications are delivered isPlaying agrees with the
\* engine (true with a bound handle: that handle is playing; false: no handle
\* is audible), and a notification of a handle that is not the bound handle
\* changes neither isPlaying nor currentTime.
EngineEvents == {"onplay", "onpause", "onstop", "onseek", "onend"}

IsPlayingAgrees ==
    /\ [](pending = <<>> =>
            /\ (isPlaying /\ currentHowl # Null) => howls[currentHowl].playing
            /\ ~isPlaying => AudibleHowls = {})
    /\ [][(last'.op \in EngineEvents /\ Head(pending).h # currentHowl) =>
            (isPlaying' = isPlaying /\ currentTime' = currentTime)]_vars

\* C26: whenever the current track is set and its id occurs in the queue, the
\* queue entry at currentIndex is that track; toggleShuffle and the
\* replacement of the queue preserve this.
IndexPointsAtCurrent ==
    (currentTrack # NullTrack /\ currentTrack.id \in Range(queue)) =>
        At(queue, currentIndex) = currentTrack.id

\* C27: a bound handle implies that a current track is set and that the handle
\* was created for that track; currentTrack and currentHowl change together.
HandleBelongsToCurrent ==
    /\ [](currentHowl # Null =>
            /\ currentTrack # NullTrack
            /\ howls[currentHowl].track = currentTrack.id)
    /\ [][(currentHowl' # currentHowl \/ currentTrack' # currentTrack) =>
            \/ /\ last'.op = "onload"
               /\ currentHowl' # Null
               /\ howls'[currentHowl'].track = currentTrack'.id
            \/ /\ last'.op = "clearQueue"
               /\ currentHowl' = Null
               /\ currentTrack' = NullTrack
            \/ /\ last'.op \in {"playTrack", "nextTrack", "previousTrack", "onend"}
               /\ currentTrack' # NullTrack
               /\ ~HasAudioUrl(currentTrack'.id)
               /\ currentHowl' = Null]_vars

HandleBelongsToCurrentWitness ==
    /\ last.op = "onload"
    /\ currentHowl # Null
    /\ currentTrack.id = 3
    /\ \E h \in HowlIds : h # currentHowl /\ howls[h].state = "loaded"
                            /\ howls[h].track = 2

\* C28: whenever a handle is bound its engine volume equals the stored volume,
\* also when setVolume ran between playTrack and the load-complete
\* notification that binds the handle.
BoundVolumeMatches ==
    currentHowl # Null => howls[currentHowl].volume = volume

\* C29: after clearQueue(), with no further command, the controller stays
\* Idle (queue empty, no current track, isPlaying false, no handle bound or
\* audible) whatever notification of the engine arrives next: the
\* load-complete of a load that was in flight, or the stop of the released
\* handle.
Idle ==
    /\ queue = <<>>
    /\ currentTrack = NullTrack
    /\ ~isPlaying
    /\ currentHowl = Null
    /\ AudibleHowls = {}

ClearQueueStable ==
    [][(/\ last.op = "clearQueue"
        /\ Idle
        /\ last'.op \in EngineEvents \cup {"onload", "loaderror", "ended"}) =>
            Idle']_vars

\* C30: once all metadata loads have finished, the queue passed last to
\* addToQueue is the one built from the most recent tracksDetails, also when
\* an update arrived while an earlier load was running.
LoaderAtRest == loader.running = 0 /\ ~loader.effectDue

QueueFollowsDetails ==
    (LoaderAtRest /\ loader.details # 0) => queue = QueueOf(loader.details)

====
